---- MODULE Spec2Model ----
(***************************************************************************)
(* ManagedResults (qiskit_ibm/managed/managedresults.py): the view over a  *)
(* managed job set that forwards per-experiment queries to the job that    *)
(* ran the experiment and combines all job results into one cached Result. *)
(*                                                                         *)
(* Python objects are modelled as a heap.  A Result object is an id into   *)
(* `results`, whose value is the object's `results` list (a sequence of    *)
(* entry ids); an experiment entry is an id into `entries`, whose value is *)
(* the entry's data.  Two lists holding the same entry id alias the same   *)
(* mutable entry object.                                                   *)
(***************************************************************************)
EXTENDS Integers, Sequences, FiniteSets

\* ---------------------------------------------------------------- bounds
MaxJobs == 2
MaxCount == 2
MaxMutations == 1
NumThreads == 2
MaxCalls == 3

\* `self._combined_results = None`: the id no Result object has.
None == 0

Methods == {"data", "get_memory", "get_counts", "get_statevector", "get_unitary"}
\* Experiment refs: global positions; those past the last submitted
\* experiment are refs the job set finds no job for.
Refs == 0 .. (MaxJobs * MaxCount)
\* The `decimals` argument of get_statevector and get_unitary: <<>> is
\* None (no rounding), <<d>> is rounding to d decimals.
NoDecimals == <<>>
DecimalsArgs == {NoDecimals, <<2>>}
Threads == 1 .. NumThreads

VARIABLES
  success,            \* self.success, fixed at construction
  cache,              \* self._combined_results: None or a Result id
  jobs,               \* self._job_set: sequence of [ok, result] job handles
  location,           \* the job set's index: ref -> [job, exp_index]
  results,            \* heap of Result objects: id -> list of entry ids
  entries,            \* heap of entry objects: id -> data
  ret,                \* outcome of the latest call of the sequential caller
  mutations,          \* number of caller mutations of the combined result
  pc, local, idx,     \* per thread: position in combine_results, its locals
  tret,               \* per thread: what its latest combine_results returned
  started,            \* number of combine_results calls the threads began
  sawEmpty,           \* history: threads whose cache check found it empty
  written             \* history: the Result ids written to the cache

vars == <<success, cache, jobs, location, results, entries, ret, mutations,
          pc, local, idx, tret, started, sawEmpty, written>>
thrVars == <<pc, local, idx, tret, started, sawEmpty, written>>

\* ------------------------------------------------------- construction
\* Data of entry k (0-based) of job j as the backend produced it.
OrigVal(j, k) == 10 * j + k

RECURSIVE Offset(_, _)
\* Global position of the first experiment of job j, for per-job counts c.
Offset(c, j) == IF j <= 1 THEN 0 ELSE Offset(c, j - 1) + c[j - 1]

Total(c) == Offset(c, Len(c) + 1)

\* Entry id that holds entry k of job j when the jobs' payloads are built.
EntryId(c, j, k) == Offset(c, j) + k + 1

JobPayload(c, j) == [k \in 1 .. c[j] |-> EntryId(c, j, k - 1)]

RECURSIVE LocateFrom(_, _, _)
LocateFrom(c, j, p) ==
  IF j > Len(c) THEN [job |-> None, exp_index |-> 0]
  ELSE IF p < c[j] THEN [job |-> j, exp_index |-> p]
  ELSE LocateFrom(c, j + 1, p - c[j])

NoErr == [type |-> "", msg |-> "", cause |-> None]

Ret(op, ref, kind, value, err, fetched, asked, hit) ==
  [op |-> op, ref |-> ref, decimals |-> NoDecimals, kind |-> kind,
   value |-> value, err |-> err, fetched |-> fetched, askedJobs |-> asked,
   hit |-> hit]

NoCall == Ret("none", 0, "none", <<>>, NoErr, <<>>, FALSE, FALSE)

Init ==
  /\ success \in BOOLEAN
  /\ cache = None
  /\ \E n \in 1 .. MaxJobs :
       \E c \in [1 .. n -> 1 .. MaxCount], ok \in [1 .. n -> BOOLEAN] :
         /\ jobs = [j \in 1 .. n |-> [ok |-> ok[j], result |-> j]]
         /\ results = [j \in 1 .. n |-> JobPayload(c, j)]
         /\ entries = [a \in 1 .. Total(c) |->
                         LET l == LocateFrom(c, 1, a - 1)
                         IN OrigVal(l.job, l.exp_index)]
         /\ location = [r \in Refs |-> LocateFrom(c, 1, r)]
  /\ ret = NoCall
  /\ mutations = 0
  /\ pc = [t \in Threads |-> "idle"]
  /\ local = [t \in Threads |-> None]
  /\ idx = [t \in Threads |-> 0]
  /\ tret = [t \in Threads |-> NoCall]
  /\ started = 0
  /\ sawEmpty = {}
  /\ written = {}

\* ------------------------------------------------------ collaborators
DataNotAvailable(msg, cause) ==
  [type |-> "IBMQManagedResultDataNotAvailable", msg |-> msg, cause |-> cause]

JobError(j) == [type |-> "JobError", msg |-> "", cause |-> j]

\* job.result(): the job's stored payload, or a JobError.
job_result(j) ==
  IF jobs[j].ok THEN [kind |-> "ok", result |-> jobs[j].result]
  ELSE [kind |-> "error", result |-> None]

\* Result.<method>(exp_index[, decimals]) of a payload: reads the entry at
\* the 0-based offset, as that method presents it (rounded as asked), and
\* raises on an offset the payload does not hold.
Accessor(m, rid, k, d) ==
  IF k + 1 \in DOMAIN results[rid]
  THEN [kind |-> "ok", value |-> <<m, entries[results[rid][k + 1]], d>>]
  ELSE [kind |-> "error", value |-> <<>>]

\* ---------------------------------------------------------- _get_result
\* Variants of _get_result: the caller's global ref passed on as the offset;
\* the `job is None` test left out; the JobError not chained as the cause.
get_result_global(experiment) ==
  LET l == location[experiment] IN
  IF l.job = None
  THEN [kind |-> "error", result |-> None, exp_index |-> 0, fetched |-> <<>>,
        err |-> DataNotAvailable("not successfully submitted", None)]
  ELSE IF job_result(l.job).kind = "ok"
  THEN [kind |-> "ok", result |-> job_result(l.job).result,
        exp_index |-> experiment, fetched |-> <<l.job>>, err |-> NoErr]
  ELSE [kind |-> "error", result |-> None, exp_index |-> 0,
        fetched |-> <<l.job>>,
        err |-> DataNotAvailable("not available", l.job)]

get_result_no_none_check(experiment) ==
  LET l == location[experiment]
      j == IF l.job = None THEN 1 ELSE l.job IN
  IF job_result(j).kind = "ok"
  THEN [kind |-> "ok", result |-> job_result(j).result,
        exp_index |-> l.exp_index, fetched |-> <<j>>, err |-> NoErr]
  ELSE [kind |-> "error", result |-> None, exp_index |-> 0,
        fetched |-> <<j>>,
        err |-> DataNotAvailable("not available", j)]

get_result_no_chain(experiment) ==
  LET l == location[experiment] IN
  IF l.job = None
  THEN [kind |-> "error", result |-> None, exp_index |-> 0, fetched |-> <<>>,
        err |-> DataNotAvailable("not successfully submitted", None)]
  ELSE IF job_result(l.job).kind = "ok"
  THEN [kind |-> "ok", result |-> job_result(l.job).result,
        exp_index |-> l.exp_index, fetched |-> <<l.job>>, err |-> NoErr]
  ELSE [kind |-> "error", result |-> None, exp_index |-> 0,
        fetched |-> <<l.job>>,
        err |-> DataNotAvailable("not available", None)]

_get_result(experiment) ==
  LET l == location[experiment] IN
  IF l.job = None
  THEN [kind |-> "error", result |-> None, exp_index |-> 0, fetched |-> <<>>,
        err |-> DataNotAvailable("not successfully submitted", None)]
  ELSE IF job_result(l.job).kind = "ok"
  THEN [kind |-> "ok", result |-> job_result(l.job).result,
        exp_index |-> l.exp_index, fetched |-> <<l.job>>, err |-> NoErr]
  ELSE [kind |-> "error", result |-> None, exp_index |-> 0,
        fetched |-> <<l.job>>,
        err |-> DataNotAvailable("not available", l.job)]

\* The body the five forwarders share: resolve, then call the same-named
\* accessor of the job's payload with the resolved offset.
Query(m, experiment, d) ==
  LET g == _get_result(experiment)
      r == IF g.kind = "error"
           THEN Ret(m, experiment, "error", <<>>, g.err, g.fetched, FALSE, FALSE)
           ELSE LET a == Accessor(m, g.result, g.exp_index, d) IN
                IF a.kind = "ok"
                THEN Ret(m, experiment, "ok", a.value, NoErr, g.fetched, FALSE, FALSE)
                ELSE Ret(m, experiment, "error", <<>>,
                         [type |-> "QiskitError", msg |-> "", cause |-> None],
                         g.fetched, FALSE, FALSE)
  IN
  /\ ret' = [r EXCEPT !.decimals = d]
  /\ UNCHANGED <<success, cache, jobs, location, results, entries, mutations>>
  /\ UNCHANGED thrVars

data == \E e \in Refs : Query("data", e, NoDecimals)
get_memory == \E e \in Refs : Query("get_memory", e, NoDecimals)
get_counts == \E e \in Refs : Query("get_counts", e, NoDecimals)
get_statevector ==
  \E e \in Refs, d \in DecimalsArgs : Query("get_statevector", e, d)
get_unitary ==
  \E e \in Refs, d \in DecimalsArgs : Query("get_unitary", e, d)

\* ------------------------------------------------------ combine_results
\* `if self._combined_results:` (a Result object is truthy).
\* CacheMiss: the cache never consulted.
CacheMiss == FALSE
CacheHit == cache # None

\* `if not self.success:`.  NeverRefused: the flag never tested.
NeverRefused == FALSE
Refused == ~success

\* copy.deepcopy(result): a new Result with a new list of new entries.
\* AliasCopy: the job's own Result taken without a copy.
AliasCopy(h, rid) == [results |-> h.results, entries |-> h.entries, id |-> rid]
DeepCopy(h, rid) ==
  LET n == Len(h.results[rid]) IN
  [results |-> Append(h.results, [k \in 1 .. n |-> Len(h.entries) + k]),
   entries |-> h.entries \o [k \in 1 .. n |-> h.entries[h.results[rid][k]]],
   id |-> Len(h.results) + 1]

\* combined_result.results.extend(jobs[i].result().results)
\* ExtendFront: the job's entries put before those gathered so far.
ExtendFront(h, i) ==
  [h EXCEPT !.results[h.id] = h.results[jobs[i].result] \o @]
Extend(h, i) ==
  [h EXCEPT !.results[h.id] = @ \o h.results[jobs[i].result]]

RECURSIVE ExtendAll(_, _)
\* for idx in range(1, len(jobs)), with every fetch succeeding
ExtendAll(h, i) ==
  IF i > Len(jobs) THEN h ELSE ExtendAll(Extend(h, i), i + 1)

\* The first job, in list order, whose result() raises; 0 when none does.
\* FirstFailingFirstOnly: a failure of a later job's fetch going unnoticed.
FirstFailingFirstOnly == IF jobs[1].ok THEN 0 ELSE 1
FirstFailing ==
  IF \A j \in 1 .. Len(jobs) : jobs[j].ok THEN 0
  ELSE CHOOSE j \in 1 .. Len(jobs) :
         ~jobs[j].ok /\ \A i \in 1 .. j - 1 : jobs[i].ok

Heap == [results |-> results, entries |-> entries, id |-> None]

combine_results ==
  /\ IF CacheHit
     THEN /\ ret' = Ret("combine", 0, "ok", <<cache>>, NoErr, <<>>, FALSE, TRUE)
          /\ UNCHANGED <<cache, results, entries>>
     ELSE IF Refused
     THEN /\ ret' = Ret("combine", 0, "error", <<>>,
                        DataNotAvailable("cannot be combined", None),
                        <<>>, FALSE, FALSE)
          /\ UNCHANGED <<cache, results, entries>>
     ELSE IF FirstFailing # 0
     THEN \* jobs[i].result() raises: the JobError leaves the method as is
          /\ ret' = Ret("combine", 0, "error", <<>>, JobError(FirstFailing),
                        [i \in 1 .. FirstFailing |-> i], TRUE, FALSE)
          /\ UNCHANGED <<cache, results, entries>>
     ELSE LET h == ExtendAll(DeepCopy(Heap, jobs[1].result), 2) IN
          /\ results' = h.results
          /\ entries' = h.entries
          /\ cache' = h.id
          /\ ret' = Ret("combine", 0, "ok", <<h.id>>, NoErr,
                        [i \in 1 .. Len(jobs) |-> i], TRUE, FALSE)
  /\ UNCHANGED <<success, jobs, location, mutations>>
  /\ UNCHANGED thrVars

\* ------------------------------------------- the caller, on the combined
\* The caller overwrites the data of the entry at position p of the
\* combined result it was given.
MutateEntry ==
  /\ cache # None
  /\ mutations < MaxMutations
  /\ \E p \in 1 .. Len(results[cache]) :
       /\ entries[results[cache][p]] # 0
       /\ entries' = [entries EXCEPT ![results[cache][p]] = 0]
  /\ mutations' = mutations + 1
  /\ ret' = Ret("mutate", 0, "ok", <<>>, NoErr, <<>>, FALSE, FALSE)
  /\ UNCHANGED <<success, cache, jobs, location, results>>
  /\ UNCHANGED thrVars

\* The caller removes the last entry of the combined result's list.
MutateSequence ==
  /\ cache # None
  /\ mutations < MaxMutations
  /\ Len(results[cache]) > 0
  /\ results' = [results EXCEPT ![cache] = SubSeq(@, 1, Len(@) - 1)]
  /\ mutations' = mutations + 1
  /\ ret' = Ret("mutate", 0, "ok", <<>>, NoErr, <<>>, FALSE, FALSE)
  /\ UNCHANGED <<success, cache, jobs, location, entries>>
  /\ UNCHANGED thrVars

NextCalls ==
  \/ data
  \/ get_memory
  \/ get_counts
  \/ get_statevector
  \/ get_unitary
  \/ combine_results

Next ==
  \/ NextCalls
  \/ MutateEntry
  \/ MutateSequence

\* Calls and caller mutations, one at a time.
Spec == Init /\ [][Next]_vars

\* Calls only, one at a time.
SpecCalls == Init /\ [][NextCalls]_vars

\* ------------------------------------- combine_results, line by line
\* Several threads call combine_results on the one view; a thread switch
\* can fall between any two of its lines.
Call(t) ==
  /\ pc[t] = "idle"
  /\ started < MaxCalls
  /\ started' = started + 1
  /\ pc' = [pc EXCEPT ![t] = "l189"]
  /\ UNCHANGED <<success, cache, jobs, location, results, entries, ret,
                 mutations, local, idx, tret, sawEmpty, written>>

\* line 189: if self._combined_results
CheckCache(t) ==
  /\ pc[t] = "l189"
  /\ pc' = [pc EXCEPT ![t] = IF CacheHit THEN "l190" ELSE "l192"]
  /\ sawEmpty' = IF cache = None THEN sawEmpty \cup {t} ELSE sawEmpty
  /\ UNCHANGED <<success, cache, jobs, location, results, entries, ret,
                 mutations, local, idx, tret, started, written>>

\* line 190: return self._combined_results
ReturnCached(t) ==
  /\ pc[t] = "l190"
  /\ tret' = [tret EXCEPT ![t] =
                Ret("combine", 0, "ok", <<cache>>, NoErr, <<>>, FALSE, TRUE)]
  /\ pc' = [pc EXCEPT ![t] = "idle"]
  /\ UNCHANGED <<success, cache, jobs, location, results, entries, ret,
                 mutations, local, idx, started, sawEmpty, written>>

\* lines 192-194: if not self.success: raise
CheckSuccess(t) ==
  /\ pc[t] = "l192"
  /\ IF Refused
     THEN /\ tret' = [tret EXCEPT ![t] =
                       Ret("combine", 0, "error", <<>>,
                           DataNotAvailable("cannot be combined", None),
                           <<>>, FALSE, FALSE)]
          /\ pc' = [pc EXCEPT ![t] = "idle"]
     ELSE /\ pc' = [pc EXCEPT ![t] = "l196"]
          /\ UNCHANGED tret
  /\ UNCHANGED <<success, cache, jobs, location, results, entries, ret,
                 mutations, local, idx, started, sawEmpty, written>>

\* lines 196-197: jobs = ...jobs(); combined_result = deepcopy(jobs[0].result())
FetchFirst(t) ==
  /\ pc[t] = "l196"
  /\ IF job_result(1).kind = "ok"
     THEN LET h == DeepCopy(Heap, job_result(1).result) IN
          /\ results' = h.results
          /\ entries' = h.entries
          /\ local' = [local EXCEPT ![t] = h.id]
          /\ idx' = [idx EXCEPT ![t] = 2]
          /\ pc' = [pc EXCEPT ![t] = "l198"]
          /\ UNCHANGED tret
     ELSE /\ tret' = [tret EXCEPT ![t] =
                       Ret("combine", 0, "error", <<>>, JobError(1),
                           <<1>>, TRUE, FALSE)]
          /\ pc' = [pc EXCEPT ![t] = "idle"]
          /\ UNCHANGED <<results, entries, local, idx>>
  /\ UNCHANGED <<success, cache, jobs, location, ret, mutations, started,
                 sawEmpty, written>>

\* lines 198-199: one turn of the loop, or its end
Loop(t) ==
  /\ pc[t] = "l198"
  /\ IF idx[t] > Len(jobs)
     THEN /\ pc' = [pc EXCEPT ![t] = "l201"]
          /\ UNCHANGED <<results, idx, tret>>
     ELSE IF job_result(idx[t]).kind = "ok"
     THEN /\ results' = Extend([Heap EXCEPT !.id = local[t]], idx[t]).results
          /\ idx' = [idx EXCEPT ![t] = @ + 1]
          /\ UNCHANGED <<pc, tret>>
     ELSE /\ tret' = [tret EXCEPT ![t] =
                       Ret("combine", 0, "error", <<>>, JobError(idx[t]),
                           [i \in 1 .. idx[t] |-> i], TRUE, FALSE)]
          /\ pc' = [pc EXCEPT ![t] = "idle"]
          /\ UNCHANGED <<results, idx>>
  /\ UNCHANGED <<success, cache, jobs, location, entries, ret, mutations,
                 local, started, sawEmpty, written>>

\* lines 201-202: self._combined_results = combined_result; return it
WriteCache(t) ==
  /\ pc[t] = "l201"
  /\ cache' = local[t]
  /\ written' = written \cup {local[t]}
  /\ tret' = [tret EXCEPT ![t] =
                Ret("combine", 0, "ok", <<local[t]>>, NoErr,
                    [i \in 1 .. Len(jobs) |-> i], TRUE, FALSE)]
  /\ pc' = [pc EXCEPT ![t] = "idle"]
  /\ UNCHANGED <<success, jobs, location, results, entries, ret, mutations,
                 local, idx, started, sawEmpty>>

NextThreads ==
  \E t \in Threads :
    \/ Call(t)
    \/ CheckCache(t)
    \/ ReturnCached(t)
    \/ CheckSuccess(t)
    \/ FetchFirst(t)
    \/ Loop(t)
    \/ WriteCache(t)

\* Concurrent calls of combine_results, interleaved line by line.
SpecThreads == Init /\ [][NextThreads]_vars

\* ------------------------------------------------------------ properties
\* Per-job experiment counts as the job set's index records them.
IndexCounts ==
  [j \in 1 .. Len(jobs) |-> Cardinality({r \in Refs : location[r].job = j})]

\* The data of the entries of Result rid, in list order.
Values(rid) == [p \in 1 .. Len(results[rid]) |-> entries[results[rid][p]]]

RECURSIVE Concat(_)
\* The jobs' entry data, job after job up to job n.
Concat(n) == IF n = 0 THEN <<>> ELSE Concat(n - 1) \o Values(jobs[n].result)

AllFetchOk == \A j \in 1 .. Len(jobs) : jobs[j].ok

\* Job j's stored payload is as the backend produced it: its list and the
\* data of each of its entries.
JobUntouched(j) ==
  /\ results[jobs[j].result] = JobPayload(IndexCounts, j)
  /\ \A k \in 0 .. IndexCounts[j] - 1 :
       entries[EntryId(IndexCounts, j, k)] = OrigVal(j, k)

\* Result rid shares no entry object with job j's payload.
NoSharedEntry(rid, j) ==
  \A p \in DOMAIN results[rid], k \in DOMAIN results[jobs[j].result] :
    results[rid][p] # results[jobs[j].result][k]

\* C1: with the success flag true and every job returning its payload,
\* combine_results returns a Result whose list has sum(ci) entries, and the
\* entry at global position c0 + ... + c(i-1) + k is job i's entry k.
C1_CombinedOrder ==
  (ret.op = "combine" /\ success /\ AllFetchOk) =>
    /\ ret.kind = "ok"
    /\ LET R == ret.value[1]
           c == [j \in 1 .. Len(jobs) |-> Len(results[jobs[j].result])]
       IN /\ Len(results[R]) = Total(c)
          /\ \A i \in 1 .. Len(jobs) : \A k \in 0 .. c[i] - 1 :
               entries[results[R][Offset(c, i) + k + 1]]
                 = entries[results[jobs[i].result][k + 1]]

C1_Witness ==
  /\ ret.op = "combine" /\ ret.kind = "ok" /\ success /\ AllFetchOk
  /\ Len(jobs) = MaxJobs
  /\ \A j \in 1 .. Len(jobs) : Len(results[jobs[j].result]) = MaxCount

\* C2: on a view whose success flag is false every combine_results call
\* fails with the data-not-available error and returns nothing, whatever
\* the jobs' states, and the cache stays empty.
C2_Refused ==
  (~success /\ ret.op = "combine") =>
    /\ ret.kind = "error"
    /\ ret.err = DataNotAvailable("cannot be combined", None)
    /\ ret.value = <<>>
    /\ cache = None

C2_Witness ==
  ~success /\ ret.op = "combine" /\ ret.kind = "error" /\ AllFetchOk

\* C3: once the cache holds a Result, every combine_results call returns
\* that same object, keeps it cached, asks the job set for no job list and
\* fetches no job result.
C3_Memoized ==
  [][(cache # None /\ ret'.op = "combine") =>
       /\ cache' = cache
       /\ ret'.kind = "ok"
       /\ ret'.value = <<cache>>
       /\ ret'.hit
       /\ ~ret'.askedJobs
       /\ ret'.fetched = <<>>]_vars

C3_Witness ==
  ret.op = "combine" /\ ret.hit /\ ret.value = <<cache>> /\ Len(jobs) > 1

\* C4: for a ref the job set finds no job for, every query method fails
\* with the data-not-available error (not successfully submitted), returns
\* nothing and fetches no job result.
C4_NotSubmitted ==
  (ret.op \in Methods /\ location[ret.ref].job = None) =>
    /\ ret.kind = "error"
    /\ ret.err = DataNotAvailable("not successfully submitted", None)
    /\ ret.value = <<>>
    /\ ret.fetched = <<>>

C4_Witness ==
  ret.op = "get_unitary" /\ location[ret.ref].job = None /\ ret.kind = "error"

\* C5: for a ref whose job's result fetch raises a JobError, every query
\* method fails with the data-not-available error (not available) whose
\* cause is that job's error.
C5_Chained ==
  (/\ ret.op \in Methods
   /\ location[ret.ref].job # None
   /\ ~jobs[location[ret.ref].job].ok) =>
    /\ ret.kind = "error"
    /\ ret.value = <<>>
    /\ ret.err.type = "IBMQManagedResultDataNotAvailable"
    /\ ret.err.msg = "not available"
    /\ ret.err.cause = JobError(location[ret.ref].job).cause

C5_Witness ==
  /\ ret.op = "get_statevector"
  /\ location[ret.ref].job = MaxJobs
  /\ ~jobs[location[ret.ref].job].ok
  /\ ret.kind = "error"

\* C6: for a ref the job set resolves to (job j, offset k) with job j's
\* fetch succeeding, every query method returns what the same-named
\* accessor of job j's payload returns for offset k, whatever the cache
\* and the success flag are.
C6_Forwarded ==
  (/\ ret.op \in Methods
   /\ location[ret.ref].job # None
   /\ jobs[location[ret.ref].job].ok) =>
    LET l == location[ret.ref] IN
    /\ ret.kind = "ok"
    /\ ret.value = <<ret.op, entries[results[jobs[l.job].result][l.exp_index + 1]],
                     ret.decimals>>
    /\ ret.fetched = <<l.job>>

C6_Witness ==
  /\ ret.op = "get_counts" /\ ret.kind = "ok"
  /\ location[ret.ref].job = MaxJobs
  /\ location[ret.ref].exp_index = 0
  /\ cache # None

C6_WitnessUncombined ==
  /\ ret.op = "get_counts" /\ ret.kind = "ok"
  /\ location[ret.ref].job = MaxJobs
  /\ ~success /\ cache = None

\* C7: with exactly one job and the success flag true, the combined Result
\* has the job's entries but is an independent deep copy: neither the
\* combination nor any later mutation of the combined Result changes the
\* job's stored payload.
C7_SingleJobCopy ==
  (Len(jobs) = 1) =>
    /\ JobUntouched(1)
    /\ (cache # None => (cache # jobs[1].result /\ NoSharedEntry(cache, 1)))
    /\ (ret.op = "combine" /\ ret.kind = "ok" /\ ~ret.hit =>
          Values(ret.value[1]) = Values(jobs[1].result))

C7_Witness ==
  /\ Len(jobs) = 1 /\ cache # None /\ ret.op = "mutate"
  /\ Len(results[jobs[1].result]) = MaxCount
  /\ \E p \in DOMAIN results[cache] : entries[results[cache][p]] = 0

C7_WitnessSequence ==
  /\ Len(jobs) = 1 /\ cache # None /\ ret.op = "mutate"
  /\ Len(results[cache]) < Len(results[jobs[1].result])

\* C8: with two or more jobs, no mutation of the combined Result changes
\* any job's stored payload or its entries.
C8_NoJobAffected ==
  (Len(jobs) >= 2) => \A j \in 1 .. Len(jobs) : JobUntouched(j)

\* C9: the cache is empty or holds a complete combination of all jobs made
\* with the success flag true and every fetch succeeding; a combine_results
\* call that fails leaves the cache empty.
C9_CacheComplete ==
  /\ cache # None =>
       /\ success
       /\ AllFetchOk
       /\ Values(cache) = Concat(Len(jobs))
  /\ (ret.op = "combine" /\ ret.kind = "error") => cache = None

C9_Witness ==
  /\ cache # None /\ Len(jobs) = MaxJobs /\ ret.op \in Methods

C9_WitnessFailed ==
  /\ ret.op = "combine" /\ ret.kind = "error" /\ success
  /\ ret.fetched = <<1, 2>> /\ cache = None

\* The threads' calls that returned a Result.
Returned == {t \in Threads : tret[t].op = "combine" /\ tret[t].kind = "ok"}

\* C10 as stated: under concurrent combine_results calls the cache is
\* written at most once, and every caller receives the one same object.
C10_WrittenOnce ==
  /\ Cardinality(written) <= 1
  /\ \A t1, t2 \in Returned : tret[t1].value = tret[t2].value

\* C10 as amended: under concurrent calls the cache is written at most once
\* by each call whose cache check found it empty; a call whose check finds
\* the cache set writes nothing; every object written is a complete
\* combination of all jobs; every caller receives an object that was
\* written to the cache, and the cache holds one of them.
C10_WrittenOncePerEmptyCheck ==
  /\ Cardinality(written) <= Cardinality(sawEmpty)
  /\ \A t \in Threads : pc[t] \in {"l192", "l196", "l198", "l201"} => t \in sawEmpty
  /\ \A r \in written : Values(r) = Concat(Len(jobs))
  /\ \A t \in Returned : tret[t].value[1] \in written
  /\ IF written = {} THEN cache = None ELSE cache \in written

C10_Witness ==
  /\ Cardinality(written) = 2
  /\ \E t1, t2 \in Returned :
       /\ tret[t1].value # tret[t2].value
       /\ ~tret[t1].hit /\ tret[t2].hit

====
